---- MODULE Spec2Model ----
(***************************************************************************)
(* Model of demo/stack01/lfstack.cc: the three fixed-capacity LIFO stacks  *)
(* stack (plain), lstack (mutex guarded) and lfstack (CAS on one atomic    *)
(* word).  Shared accesses are the atomic steps of the concurrent models;  *)
(* the single-threaded model runs whole calls.                             *)
(***************************************************************************)
EXTENDS Integers, Sequences, FiniteSets, Bags, TLC

\* ---------------------------------------------------------------- bounds
MaxSize == 5
MaxDepth == 4
MaxVal == 3
NThreads == 3
MaxCalls == 3
MaxLCalls == 4
MaxSwCalls == 4
MaxLfSize == 3

Sizes == 2..MaxSize          \* arguments of resize
LfSizes == 2..MaxLfSize      \* arguments of nonconcurrent_resize in the concurrent runs
Values == 1..MaxVal          \* arguments of push in the single-threaded run
Threads == 1..NThreads
Cells == MaxSize + MaxDepth + MaxLCalls  \* int cells addressable from &contents[0]
Variants == {"stack", "lstack", "lfstack"}

VARIABLES st, lst, lfst, run, pc, loc, proc, gh

vars == <<st, lst, lfst, run, pc, loc, proc, gh>>

\* ------------------------------------------------------- uint32_t helpers
\* A uint32_t is held as its two's-complement bit pattern: the pattern
\* p >= 2^31 is the integer p - 2^32, so 0u - 1 is -1 (0xffffffff).
\* U32Lt is the unsigned comparison of two patterns.
U32Lt(a, b) == IF (a < 0) = (b < 0) THEN a < b ELSE b < 0

\* std::atomic_compare_exchange_strong(&obj, &expected, desired) on a word
\* holding cur: the new word, the success flag, and what expected holds after.
cas(cur, expected, desired) ==
  [ok |-> cur = expected,
   val |-> IF cur = expected THEN desired ELSE cur,
   expected |-> cur]

\* ------------------------------------------------------------ class stack
\* contents[i] for i < len is the vector; cells at i >= len lie past its end.
stack_new ==
  [contents |-> [i \in 0..(Cells - 1) |-> 0], len |-> 0,
   _contents |-> FALSE, index |-> 0, size |-> 0]

\* resize(n): contents.resize(n); _contents = &contents[0].  size is not assigned.
stack_resize(s, n) ==
  [s EXCEPT !.contents = [i \in 0..(Cells - 1) |-> 0], !.len = n, !._contents = TRUE]

\* the two assertions of push: _contents != nullptr and index < size-1 (unsigned)
stack_push_pre(s) == s._contents /\ U32Lt(s.index, s.size - 1)

\* _contents[i] = t.  A store past the end of the vector is undefined: it
\* lands in the memory after the buffer or faults.
stack_store(s, i, t) ==
  IF i < s.len
    THEN {[s |-> [s EXCEPT !.contents[i] = t], status |-> "run"]}
    ELSE {[s |-> [s EXCEPT !.contents[i] = t], status |-> "run"],
          [s |-> s, status |-> "segv"]}

\* push(t), run to its end by one thread
stack_push(s, t) ==
  IF ~stack_push_pre(s)
    THEN {[s |-> s, status |-> "abort"]}
    ELSE {[s |-> [o.s EXCEPT !.index = s.index + 1], status |-> o.status] :
             o \in stack_store([s EXCEPT !.index = s.index + 1], s.index, t)}

\* try_pop(t), run to its end by one thread
stack_try_pop(s, t) ==
  IF s.index = 0
    THEN [s |-> s, t |-> t, ret |-> FALSE, status |-> "run"]
    ELSE [s |-> [s EXCEPT !.index = s.index - 1],
          t |-> s.contents[s.index - 1], ret |-> TRUE, status |-> "run"]

\* ----------------------------------------------------------- class lstack
NoThread == 0

lstack_new == [wrapped |-> stack_new, mx |-> NoThread]

\* std::lock_guard<std::mutex> lck(mx) by thread t: whether it gets the mutex
lock_guard_m(l, t) == [ok |-> TRUE, s |-> [l EXCEPT !.mx = t]]

lock_guard(l, t) == [ok |-> l.mx = NoThread, s |-> [l EXCEPT !.mx = t]]

lstack_nonconcurrent_resize(l, n) == [l EXCEPT !.wrapped = stack_resize(l.wrapped, n)]

\* push(t) by one thread: lock_guard taken, wrapped.push, lock_guard released
lstack_push(l, t) ==
  {[s |-> [l EXCEPT !.wrapped = o.s, !.mx = NoThread], status |-> o.status] :
      o \in stack_push(l.wrapped, t)}

lstack_try_pop(l, t) ==
  LET o == stack_try_pop(l.wrapped, t)
  IN  [s |-> [l EXCEPT !.wrapped = o.s, !.mx = NoThread],
       t |-> o.t, ret |-> o.ret, status |-> o.status]

\* ---------------------------------------------------------- class lfstack
clean_index_m(i) == i

clean_index(i) == i - (i % 2)          \* i & 0xfffffffe

flag_index_m(i) == i

flag_index(i) == i - (i % 2) + 1       \* i | 0x01

read_index(i) == i \div 2              \* i >> 1

decrement_index(i) == i - 2            \* after assert(i > 0)

is_zero_m(i) == i <= 2

is_zero(i) == i < 2

increment_index_m(i) == i + 1

increment_index(i) == i + 2

lfstack_new == [contents |-> <<>>, _contents |-> FALSE, index |-> 0, size |-> 0]

\* nonconcurrent_resize(n): the vector is a function on 0..n-1
lfstack_nonconcurrent_resize(s, n) ==
  [contents |-> [i \in 0..(n - 1) |-> 0], _contents |-> TRUE, index |-> 0, size |-> n]

\* the three compare-exchange calls
acquire_cas(word, index_copy) == cas(word, index_copy, flag_index(index_copy))

push_cas_m(word, index_copy) == cas(word, index_copy, increment_index(index_copy))

push_cas(word, index_copy) == cas(word, index_copy, increment_index(clean_index(index_copy)))

pop_cas(word, index_copy) == cas(word, index_copy, decrement_index(index_copy))

push_pre_m(s, index_copy) == U32Lt(read_index(index_copy), s.size)

\* the assertion of push's loop body and the slot it then writes
push_pre(s, index_copy) == U32Lt(read_index(index_copy), s.size - 1)

push_slot(index_copy) == read_index(clean_index(index_copy))

\* the slot try_pop reads
pop_slot_m(index_copy) == read_index(index_copy)

pop_slot(index_copy) == read_index(decrement_index(index_copy))

\* push(t) run to its end by one thread.  With no other thread a failed
\* compare-exchange re-reads the same word and fails again: "spin".
lfstack_push(s, t) ==
  IF ~s._contents THEN [s |-> s, status |-> "abort"]
  ELSE
    LET a  == acquire_cas(s.index, s.index)
        s1 == [s EXCEPT !.index = a.val]
        index_copy == s1.index
    IN  IF ~a.ok THEN [s |-> s1, status |-> "spin"]
        ELSE IF ~push_pre(s1, index_copy) THEN [s |-> s1, status |-> "abort"]
        ELSE
          LET s2 == [s1 EXCEPT !.contents[push_slot(index_copy)] = t]
              c  == push_cas(s2.index, index_copy)
          IN  [s |-> [s2 EXCEPT !.index = c.val],
               status |-> IF c.ok THEN "run" ELSE "spin"]

\* try_pop(dest) run to its end by one thread
lfstack_try_pop(s, dest) ==
  IF ~s._contents THEN [s |-> s, t |-> dest, ret |-> FALSE, status |-> "abort"]
  ELSE
    LET index_copy == clean_index(s.index)
    IN  IF is_zero(index_copy) THEN [s |-> s, t |-> dest, ret |-> FALSE, status |-> "run"]
        ELSE IF ~(index_copy > 0)
          THEN [s |-> s, t |-> dest, ret |-> FALSE, status |-> "abort"]
        ELSE
          LET d == s.contents[pop_slot(index_copy)]
              c == pop_cas(s.index, index_copy)
          IN  [s |-> [s EXCEPT !.index = c.val], t |-> d, ret |-> c.ok,
               status |-> IF c.ok THEN "run" ELSE "spin"]

\* ------------------------------------------------------------------ state
\* run: the single-threaded caller of main, driving the three variants with
\* the same calls.  r, ret, status are per variant; the rest is history:
\* abs is the sequence of values pushed and not yet popped, had and top its
\* length and last element before the last call, peak its greatest length,
\* r0 is r before the last try_pop, shape tells whether every push so far came before every try_pop, pre is
\* st.index before the last call and wrote the highest slot stack::push stored.
run_new ==
  [n |-> 0, last |-> "none",
   r |-> [x \in Variants |-> -1], r0 |-> [x \in Variants |-> -1],
   ret |-> [x \in Variants |-> FALSE],
   status |-> [x \in Variants |-> "run"],
   shape |-> "pushing", abs |-> <<>>, had |-> 0, top |-> 0,
   peak |-> 0, pre |-> 0, wrote |-> -1]

\* pc[t]: where thread t stands; loc[t]: its locals (index_copy, the argument
\* t of push, the caller's variable dest bound to try_pop's reference) and
\* history (dest0: dest when the call began, ret: what the last call
\* returned, seen: the word the last load of try_pop read).  index_copy and
\* t end with the call and are held as 0 between calls.
loc_new ==
  [index_copy |-> 0, t |-> 0, dest |-> -1, dest0 |-> -1, ret |-> "none", seen |-> 0]

\* proc: the process ("new" before resize, "run", "abort" after a failed
\* assertion).  gh: history of the concurrent run (calls begun, pushes begun,
\* pushes returned, successful try_pops returned, how often each value was
\* returned, calls returned by threads other than thread 1, threads that
\* have begun a call).
gh_new ==
  [calls |-> 0, nextv |-> 0, pushret |-> 0, popok |-> 0,
   got |-> [v \in 1..(MaxCalls + MaxLCalls + MaxSwCalls) |-> 0], retothers |-> 0, started |-> 0]

Init ==
  /\ st = stack_new
  /\ lst = lstack_new
  /\ lfst = lfstack_new
  /\ run = run_new
  /\ pc = [t \in Threads |-> "idle"]
  /\ loc = [t \in Threads |-> loc_new]
  /\ proc = "new"
  /\ gh = gh_new

\* --------------------------------------------- single-threaded run (main)
\* st.resize(n) / st.nonconcurrent_resize(n), once, before any other call
main_resize(n) ==
  /\ run.n = 0
  /\ st' = stack_resize(st, n)
  /\ lst' = lstack_nonconcurrent_resize(lst, n)
  /\ lfst' = lfstack_nonconcurrent_resize(lfst, n)
  /\ run' = [run EXCEPT !.n = n]
  /\ UNCHANGED <<pc, loc, proc, gh>>

Live(x) == run.status[x] = "run"

\* main is one process: an assertion failure or a fault in any block ends it
Running == \A x \in Variants : Live(x)

\* st.push(v) on each variant still running
main_push(v) ==
  /\ run.n > 0
  /\ Running
  /\ Len(run.abs) < MaxDepth
  /\ \E o1 \in stack_push(st, v), o2 \in lstack_push(lst, v) :
       LET o3 == lfstack_push(lfst, v)
           stt == [x \in Variants |->
                     IF ~Live(x) THEN run.status[x]
                     ELSE IF x = "stack" THEN o1.status
                     ELSE IF x = "lstack" THEN o2.status ELSE o3.status]
       IN  /\ st' = IF Live("stack") THEN o1.s ELSE st
           /\ lst' = IF Live("lstack") THEN o2.s ELSE lst
           /\ lfst' = IF Live("lfstack") THEN o3.s ELSE lfst
           /\ run' = [run EXCEPT
                 !.last = "push", !.status = stt,
                 !.abs = Append(@, v), !.had = Len(run.abs), !.top = 0,
                 !.peak = IF Len(run.abs) + 1 > @ THEN Len(run.abs) + 1 ELSE @,
                 !.shape = IF @ = "pushing" THEN "pushing" ELSE "mixed",
                 !.pre = st.index,
                 !.wrote = IF Live("stack") /\ stack_push_pre(st) /\ o1.status = "run"
                                /\ st.index > @
                             THEN st.index ELSE @]
  /\ UNCHANGED <<pc, loc, proc, gh>>

\* st.try_pop(r) on each variant still running
main_try_pop ==
  /\ run.n > 0
  /\ Running
  /\ LET o1 == stack_try_pop(st, run.r["stack"])
         o2 == lstack_try_pop(lst, run.r["lstack"])
         o3 == lfstack_try_pop(lfst, run.r["lfstack"])
         o  == [x \in Variants |->
                  IF x = "stack" THEN o1 ELSE IF x = "lstack" THEN o2 ELSE o3]
     IN  /\ st' = IF Live("stack") THEN o1.s ELSE st
         /\ lst' = IF Live("lstack") THEN o2.s ELSE lst
         /\ lfst' = IF Live("lfstack") THEN o3.s ELSE lfst
         /\ run' = [run EXCEPT
               !.last = "try_pop",
               !.status = [x \in Variants |-> IF Live(x) THEN o[x].status ELSE @[x]],
               !.r = [x \in Variants |-> IF Live(x) THEN o[x].t ELSE @[x]],
               !.r0 = run.r,
               !.ret = [x \in Variants |-> IF Live(x) THEN o[x].ret ELSE @[x]],
               !.abs = IF @ = <<>> THEN @ ELSE SubSeq(@, 1, Len(@) - 1),
               !.had = Len(run.abs),
               !.top = IF run.abs = <<>> THEN 0 ELSE run.abs[Len(run.abs)],
               !.shape = IF @ = "mixed" THEN "mixed" ELSE "popping",
               !.pre = st.index]
  /\ UNCHANGED <<pc, loc, proc, gh>>

NextSeq ==
  \/ \E n \in Sizes : main_resize(n)
  \/ \E v \in Values : main_push(v)
  \/ main_try_pop

SpecSeq == Init /\ [][NextSeq]_vars

\* ------------------------------------------- concurrent run on one lfstack
\* st.nonconcurrent_resize(n), before the threads start
lf_resize(n) ==
  /\ proc = "new"
  /\ lfst' = lfstack_nonconcurrent_resize(lfst, n)
  /\ proc' = "run"
  /\ UNCHANGED <<st, lst, run, pc, loc, gh>>

Returned(t) == IF t = 1 THEN gh.retothers ELSE gh.retothers + 1

\* The threads run the same code: they are numbered in the order of their
\* first calls.
MayCall(t) == t <= gh.started + 1

Started(t) == IF t > gh.started THEN t ELSE gh.started

\* a thread calls push with a value no other call pushes
lf_call_push(t) ==
  /\ proc = "run" /\ pc[t] = "idle" /\ gh.calls < MaxCalls /\ MayCall(t)
  /\ IF lfst._contents
       THEN /\ pc' = [pc EXCEPT ![t] = "acq_load"]
            /\ proc' = proc
       ELSE /\ pc' = pc
            /\ proc' = "abort"
  /\ loc' = [loc EXCEPT ![t].t = gh.nextv + 1, ![t].ret = "none"]
  /\ gh' = [gh EXCEPT !.calls = @ + 1, !.nextv = @ + 1, !.started = Started(t)]
  /\ UNCHANGED <<st, lst, lfst, run>>

\* acquire_write_rights: index_copy = index.load()
lf_acq_load(t) ==
  /\ proc = "run" /\ pc[t] = "acq_load"
  /\ loc' = [loc EXCEPT ![t].index_copy = lfst.index]
  /\ pc' = [pc EXCEPT ![t] = "acq_cas"]
  /\ UNCHANGED <<st, lst, lfst, run, proc, gh>>

\* acquire_write_rights: the compare-exchange that sets the flag.  The
\* function is declared uint32_t and flows off its end; push discards the
\* value, so whatever it yields does not reach the state.
lf_acq_cas(t) ==
  /\ proc = "run" /\ pc[t] = "acq_cas"
  /\ LET c == acquire_cas(lfst.index, loc[t].index_copy)
     IN  /\ lfst' = [lfst EXCEPT !.index = c.val]
         /\ loc' = [loc EXCEPT ![t].index_copy = c.expected]
         /\ pc' = [pc EXCEPT ![t] = IF c.ok THEN "push_load" ELSE "acq_load"]
  /\ UNCHANGED <<st, lst, run, proc, gh>>

\* push: index_copy = index.load(); assert(read_index(index_copy) < size - 1)
lf_push_load(t) ==
  /\ proc = "run" /\ pc[t] = "push_load"
  /\ loc' = [loc EXCEPT ![t].index_copy = lfst.index]
  /\ IF push_pre(lfst, lfst.index)
       THEN /\ pc' = [pc EXCEPT ![t] = "push_store"]
            /\ proc' = proc
       ELSE /\ pc' = pc
            /\ proc' = "abort"
  /\ UNCHANGED <<st, lst, lfst, run, gh>>

\* push: _contents[read_index(clean_index(index_copy))] = t
lf_push_store(t) ==
  /\ proc = "run" /\ pc[t] = "push_store"
  /\ lfst' = [lfst EXCEPT !.contents[push_slot(loc[t].index_copy)] = loc[t].t]
  /\ pc' = [pc EXCEPT ![t] = "push_cas"]
  /\ UNCHANGED <<st, lst, run, loc, proc, gh>>

\* push: the publishing compare-exchange; push returns when it succeeds
lf_push_cas(t) ==
  /\ proc = "run" /\ pc[t] = "push_cas"
  /\ LET c == push_cas(lfst.index, loc[t].index_copy)
     IN  /\ lfst' = [lfst EXCEPT !.index = c.val]
         /\ loc' = [loc EXCEPT ![t].index_copy = IF c.ok THEN 0 ELSE c.expected,
                               ![t].t = IF c.ok THEN 0 ELSE @,
                               ![t].ret = IF c.ok THEN "void" ELSE @]
         /\ pc' = [pc EXCEPT ![t] = IF c.ok THEN "idle" ELSE "push_load"]
         /\ gh' = IF c.ok
                    THEN [gh EXCEPT !.pushret = @ + 1, !.retothers = Returned(t)]
                    ELSE gh
  /\ UNCHANGED <<st, lst, run, proc>>

\* a thread calls try_pop(dest)
lf_call_try_pop(t) ==
  /\ proc = "run" /\ pc[t] = "idle" /\ gh.calls < MaxCalls /\ MayCall(t)
  /\ IF lfst._contents
       THEN /\ pc' = [pc EXCEPT ![t] = "pop_load"]
            /\ proc' = proc
       ELSE /\ pc' = pc
            /\ proc' = "abort"
  /\ loc' = [loc EXCEPT ![t].dest0 = loc[t].dest, ![t].ret = "none"]
  /\ gh' = [gh EXCEPT !.calls = @ + 1, !.started = Started(t)]
  /\ UNCHANGED <<st, lst, lfst, run>>

\* try_pop: index_copy = clean_index(index.load()); if (is_zero(index_copy))
\* return false; then the assertion of decrement_index
lf_pop_load(t) ==
  /\ proc = "run" /\ pc[t] = "pop_load"
  /\ LET index_copy == clean_index(lfst.index)
     IN  /\ loc' = [loc EXCEPT ![t].index_copy = IF is_zero(index_copy) THEN 0 ELSE index_copy,
                               ![t].seen = lfst.index,
                               ![t].ret = IF is_zero(index_copy) THEN "false" ELSE @]
         /\ pc' = [pc EXCEPT ![t] = IF is_zero(index_copy) THEN "idle"
                                    ELSE IF index_copy > 0 THEN "pop_read" ELSE @]
         /\ proc' = IF ~is_zero(index_copy) /\ ~(index_copy > 0) THEN "abort" ELSE proc
         /\ gh' = IF is_zero(index_copy) THEN [gh EXCEPT !.retothers = Returned(t)] ELSE gh
  /\ UNCHANGED <<st, lst, lfst, run>>

\* try_pop: dest = _contents[read_index(decrement_index(index_copy))]
lf_pop_read(t) ==
  /\ proc = "run" /\ pc[t] = "pop_read"
  /\ loc' = [loc EXCEPT ![t].dest = lfst.contents[pop_slot(loc[t].index_copy)]]
  /\ pc' = [pc EXCEPT ![t] = "pop_cas"]
  /\ UNCHANGED <<st, lst, lfst, run, proc, gh>>

\* try_pop: the compare-exchange; return true when it succeeds
lf_pop_cas(t) ==
  /\ proc = "run" /\ pc[t] = "pop_cas"
  /\ LET c == pop_cas(lfst.index, loc[t].index_copy)
         d == loc[t].dest
     IN  /\ lfst' = [lfst EXCEPT !.index = c.val]
         /\ loc' = [loc EXCEPT ![t].index_copy = IF c.ok THEN 0 ELSE c.expected,
                               ![t].ret = IF c.ok THEN "true" ELSE @]
         /\ pc' = [pc EXCEPT ![t] = IF c.ok THEN "idle" ELSE "pop_load"]
         /\ gh' = IF c.ok
                    THEN [gh EXCEPT !.popok = @ + 1, !.retothers = Returned(t),
                                    !.got = IF d \in DOMAIN @
                                              THEN [@ EXCEPT ![d] = @ + 1] ELSE @]
                    ELSE gh
  /\ UNCHANGED <<st, lst, run, proc>>

\* the steps of a call in progress in thread t
lf_step(t) ==
  \/ lf_acq_load(t) \/ lf_acq_cas(t)
  \/ lf_push_load(t) \/ lf_push_store(t) \/ lf_push_cas(t)
  \/ lf_pop_load(t) \/ lf_pop_read(t) \/ lf_pop_cas(t)

NextLF ==
  \/ \E n \in LfSizes : lf_resize(n)
  \/ \E t \in Threads :
       \/ lf_call_push(t) \/ lf_call_try_pop(t)
       \/ lf_acq_load(t) \/ lf_acq_cas(t)
       \/ lf_push_load(t) \/ lf_push_store(t) \/ lf_push_cas(t)
       \/ lf_pop_load(t) \/ lf_pop_read(t) \/ lf_pop_cas(t)

SpecLF == Init /\ [][NextLF]_vars

\* Threads keep taking the steps of their calls, except thread 1, which may
\* be suspended at any point for ever.
SpecLFSuspend == SpecLF /\ \A t \in Threads \ {1} : WF_vars(lf_step(t))

\* -------------------------------------------- concurrent run on one lstack
l_resize(n) ==
  /\ proc = "new"
  /\ lst' = lstack_nonconcurrent_resize(lst, n)
  /\ proc' = "run"
  /\ UNCHANGED <<st, lfst, run, pc, loc, gh>>

l_call_push(t) ==
  /\ proc = "run" /\ pc[t] = "idle" /\ gh.calls < MaxLCalls /\ MayCall(t)
  /\ pc' = [pc EXCEPT ![t] = "l_push_lock"]
  /\ loc' = [loc EXCEPT ![t].t = gh.nextv + 1, ![t].ret = "none"]
  /\ gh' = [gh EXCEPT !.calls = @ + 1, !.nextv = @ + 1, !.started = Started(t)]
  /\ UNCHANGED <<st, lst, lfst, run, proc>>

l_call_try_pop(t) ==
  /\ proc = "run" /\ pc[t] = "idle" /\ gh.calls < MaxLCalls /\ MayCall(t)
  /\ pc' = [pc EXCEPT ![t] = "l_pop_lock"]
  /\ loc' = [loc EXCEPT ![t].dest0 = loc[t].dest, ![t].ret = "none"]
  /\ gh' = [gh EXCEPT !.calls = @ + 1, !.started = Started(t)]
  /\ UNCHANGED <<st, lst, lfst, run, proc>>

\* the lock_guard of push and of try_pop: the thread waits for the mutex
l_lock(t) ==
  /\ proc = "run" /\ pc[t] \in {"l_push_lock", "l_pop_lock"}
  /\ lock_guard(lst, t).ok
  /\ lst' = lock_guard(lst, t).s
  /\ pc' = [pc EXCEPT ![t] = IF pc[t] = "l_push_lock" THEN "l_push_chk" ELSE "l_pop_chk"]
  /\ UNCHANGED <<st, lfst, run, loc, proc, gh>>

\* wrapped.push: the assertions, and the read of index in index++
l_push_chk(t) ==
  /\ proc = "run" /\ pc[t] = "l_push_chk"
  /\ IF stack_push_pre(lst.wrapped)
       THEN /\ pc' = [pc EXCEPT ![t] = "l_push_inc"]
            /\ loc' = [loc EXCEPT ![t].index_copy = lst.wrapped.index]
            /\ proc' = proc
       ELSE /\ pc' = pc /\ loc' = loc
            /\ proc' = "abort"
  /\ UNCHANGED <<st, lst, lfst, run, gh>>

\* wrapped.push: the write of index in index++
l_push_inc(t) ==
  /\ proc = "run" /\ pc[t] = "l_push_inc"
  /\ lst' = [lst EXCEPT !.wrapped.index = loc[t].index_copy + 1]
  /\ pc' = [pc EXCEPT ![t] = "l_push_store"]
  /\ UNCHANGED <<st, lfst, run, loc, proc, gh>>

\* wrapped.push: the store into the slot; push returns, releasing the mutex
l_push_store(t) ==
  /\ proc = "run" /\ pc[t] = "l_push_store"
  /\ \E o \in stack_store(lst.wrapped, loc[t].index_copy, loc[t].t) :
       IF o.status = "run"
         THEN /\ lst' = [lst EXCEPT !.wrapped = o.s, !.mx = NoThread]
              /\ pc' = [pc EXCEPT ![t] = "idle"]
              /\ loc' = [loc EXCEPT ![t].index_copy = 0, ![t].t = 0, ![t].ret = "void"]
              /\ gh' = [gh EXCEPT !.pushret = @ + 1]
              /\ proc' = proc
         ELSE /\ proc' = o.status
              /\ UNCHANGED <<lst, pc, loc, gh>>
  /\ UNCHANGED <<st, lfst, run>>

\* wrapped.try_pop: if (index == 0) return false, releasing the mutex; else
\* the read of index in --index
l_pop_chk_m(t) ==
  /\ proc = "run" /\ pc[t] = "l_pop_chk"
  /\ IF lst.wrapped.index = 0
       THEN /\ pc' = [pc EXCEPT ![t] = "idle"]
            /\ loc' = [loc EXCEPT ![t].ret = "false"]
       ELSE /\ pc' = [pc EXCEPT ![t] = "l_pop_dec"]
            /\ loc' = [loc EXCEPT ![t].index_copy = lst.wrapped.index]
  /\ UNCHANGED <<st, lst, lfst, run, proc, gh>>

l_pop_chk(t) ==
  /\ proc = "run" /\ pc[t] = "l_pop_chk"
  /\ IF lst.wrapped.index = 0
       THEN /\ lst' = [lst EXCEPT !.mx = NoThread]
            /\ pc' = [pc EXCEPT ![t] = "idle"]
            /\ loc' = [loc EXCEPT ![t].ret = "false"]
       ELSE /\ lst' = lst
            /\ pc' = [pc EXCEPT ![t] = "l_pop_dec"]
            /\ loc' = [loc EXCEPT ![t].index_copy = lst.wrapped.index]
  /\ UNCHANGED <<st, lfst, run, proc, gh>>

\* wrapped.try_pop: the write of index in --index
l_pop_dec(t) ==
  /\ proc = "run" /\ pc[t] = "l_pop_dec"
  /\ lst' = [lst EXCEPT !.wrapped.index = loc[t].index_copy - 1]
  /\ pc' = [pc EXCEPT ![t] = "l_pop_read"]
  /\ UNCHANGED <<st, lfst, run, loc, proc, gh>>

\* wrapped.try_pop: t = _contents[index]; return true, releasing the mutex
l_pop_read(t) ==
  /\ proc = "run" /\ pc[t] = "l_pop_read"
  /\ LET d == lst.wrapped.contents[loc[t].index_copy - 1]
     IN  /\ loc' = [loc EXCEPT ![t].dest = d, ![t].index_copy = 0, ![t].ret = "true"]
         /\ gh' = [gh EXCEPT !.popok = @ + 1,
                             !.got = IF d \in DOMAIN @ THEN [@ EXCEPT ![d] = @ + 1] ELSE @]
  /\ lst' = [lst EXCEPT !.mx = NoThread]
  /\ pc' = [pc EXCEPT ![t] = "idle"]
  /\ UNCHANGED <<st, lfst, run, proc>>

NextL ==
  \/ \E n \in LfSizes : l_resize(n)
  \/ \E t \in Threads :
       \/ l_call_push(t) \/ l_call_try_pop(t) \/ l_lock(t)
       \/ l_push_chk(t) \/ l_push_inc(t) \/ l_push_store(t)
       \/ l_pop_chk(t) \/ l_pop_dec(t) \/ l_pop_read(t)

SpecL == Init /\ [][NextL]_vars

\* ------------------------------------------------------------- properties
\* C1: LIFO order, each variant.  In a run where every push came before
\* every try_pop, with n pushes (n < capacity - 1), each of the first n
\* try_pops returns true and the latest pushed value not yet popped, on
\* stack, lstack and lfstack alike.
C1_LifoOrder ==
  (run.last = "try_pop" /\ run.shape = "popping" /\ run.peak < run.n - 1 /\ run.had > 0)
    => \A x \in Variants :
         run.status[x] = "run" /\ run.ret[x] /\ run.r[x] = run.top

C1_Witness ==
  /\ run.last = "try_pop" /\ run.shape = "popping"
  /\ run.peak = 3 /\ run.peak < run.n - 1 /\ run.had = 1
  /\ \A x \in Variants : run.ret[x] /\ run.r[x] = run.top

\* C6: capacity boundary of the plain stack.  After resize(n) a push at
\* index < n-1 stores and a push at index >= n-1 trips the assertion without
\* storing, so 0 <= index <= n and no slot at position >= n is written.
C6_CapacityBoundary ==
  run.n > 0 =>
    /\ 0 <= st.index /\ st.index <= run.n
    /\ run.wrote < run.n
    /\ (run.last = "push" /\ run.pre >= run.n - 1)
         => (run.status["stack"] = "abort" /\ st.index = run.pre)
    /\ (run.last = "push" /\ run.pre < run.n - 1)
         => (run.status["stack"] = "run" /\ st.index = run.pre + 1)

\* C8: single-threaded equivalence.  While the element count stays below
\* n-1, the three variants return the same flag and the same value at every
\* call, and a failed try_pop leaves the output as it was.
C8_VariantsAgree ==
  (run.n > 0 /\ run.peak < run.n - 1) =>
    \A x \in Variants :
      /\ run.status[x] = "run"
      /\ run.ret[x] = run.ret["stack"] /\ run.r[x] = run.r["stack"]
      /\ (run.last = "try_pop") => (run.ret[x] = (run.had > 0))
      /\ (run.last = "try_pop" /\ ~run.ret[x]) => run.r[x] = run.r0[x]

\* resize(5); push 1, 2, 3; try_pop gave 3, 2, 1; a further try_pop failed
C8_Witness ==
  /\ run.n = 5 /\ run.shape = "popping" /\ run.peak = 3 /\ run.last = "try_pop"
  /\ run.had = 0
  /\ st.contents[0] = 1 /\ st.contents[1] = 2 /\ st.contents[2] = 3
  /\ \A x \in Variants : ~run.ret[x] /\ run.r[x] = 1

\* no call in progress in the concurrent run
Quiescent == proc = "run" /\ \A t \in Threads : pc[t] = "idle"

\* a single thread calling try_pop until it fails: the values it gets and
\* how it ends ("empty", or "spin": a call that never returns)
RECURSIVE DrainFrom(_, _)
DrainFrom(s, acc) ==
  LET o == lfstack_try_pop(s, -1)
  IN  IF o.status # "run" THEN [vals |-> acc, end |-> o.status]
      ELSE IF ~o.ret THEN [vals |-> acc, end |-> "empty"]
      ELSE DrainFrom(o.s, Append(acc, o.t))

Drain == DrainFrom(lfst, <<>>)

Count(v, seq) == Cardinality({i \in 1..Len(seq) : seq[i] = v})

\* C2: no value lost, none returned twice.  With distinct values and total
\* pushes within capacity, once every call has returned and the stack is
\* drained, each pushed value has been returned by exactly one try_pop.
C2_NoLossNoDuplicate ==
  (Quiescent /\ gh.nextv <= lfst.size - 1) =>
    /\ Drain.end = "empty"
    /\ \A v \in DOMAIN gh.got :
         gh.got[v] + Count(v, Drain.vals) = IF v <= gh.nextv THEN 1 ELSE 0

\* C3: count conservation.  Whenever no call is in progress, ctrl >> 1 is
\* the pushes returned minus the successful try_pops returned, and a drain
\* gets exactly that many values and then a failure.
C3_CountConservation ==
  Quiescent =>
    /\ read_index(lfst.index) = gh.pushret - gh.popok
    /\ Drain.end = "empty"
    /\ Len(Drain.vals) = gh.pushret - gh.popok

C3_Witness ==
  /\ Quiescent /\ gh.pushret = 2 /\ gh.popok = 1
  /\ read_index(lfst.index) = 1 /\ Len(Drain.vals) = 1

\* C4: a try_pop that returns false leaves its output parameter as it was
\* when the call began.
C4_FailureLeavesOutput ==
  \A t \in Threads :
    (pc[t] = "idle" /\ loc[t].ret = "false") => loc[t].dest = loc[t].dest0

\* C5: lock-freedom.  With thread 1 suspended at any point, whenever a
\* thread that keeps running has a call pending, some call of those threads
\* returns (or an assertion stops the process).
C5_LockFree ==
  \A k \in 0..MaxCalls :
    (gh.retothers = k /\ proc = "run" /\ \E t \in Threads \ {1} : pc[t] # "idle")
      ~> (gh.retothers > k \/ proc = "abort")

\* C9: try_pop returns false exactly when the word it just loaded has count
\* 0; that return leaves ctrl alone; a failed compare-exchange leads back to
\* the load and returns nothing.
C9_FailureIffEmptyRead ==
  [][\A t \in Threads :
       LET fails == /\ pc[t] \in {"pop_load", "pop_read", "pop_cas"}
                    /\ pc'[t] = "idle" /\ loc'[t].ret = "false"
       IN  /\ fails <=> (pc[t] = "pop_load" /\ pc'[t] # "pop_load"
                           /\ read_index(lfst.index) = 0)
           /\ fails => lfst' = lfst
           /\ (pc[t] = "pop_cas" /\ pc'[t] # "pop_cas"
                 /\ lfst.index # loc[t].index_copy)
                => (pc'[t] = "pop_load" /\ loc'[t].ret = "none")]_vars

\* a try_pop returned false on reading the word 0x1: count 0, flag set
C9_Witness ==
  \E t \in Threads : pc[t] = "idle" /\ loc[t].ret = "false" /\ loc[t].seen = 1

\* C10: writer exclusion.  At most one thread is between the return of
\* acquire_write_rights and the success of its publishing compare-exchange.
C10_WriterExclusion ==
  Cardinality({t \in Threads : pc[t] \in {"push_load", "push_store", "push_cas"}}) <= 1

\* C7: guarded stack under concurrency.  The try_pops that returned true
\* never outnumber the pushes begun, and no pushed value is returned by two
\* try_pops.
C7_GuardedNoDuplicate ==
  /\ gh.popok <= gh.nextv
  /\ \A v \in DOMAIN gh.got : gh.got[v] <= 1

\* two threads have each had a try_pop return true, with different values
C7_Witness ==
  /\ gh.popok = 2
  /\ \E t, u \in Threads :
       /\ t # u /\ loc[t].ret = "true" /\ loc[u].ret = "true"
       /\ loc[t].dest # loc[u].dest /\ loc[t].dest > 0 /\ loc[u].dest > 0

\* ---------------------------- one pushing thread, the others only popping
\* thread 1 is the only caller of push
sw_call_push(t) ==
  /\ t = 1
  /\ proc = "run" /\ pc[t] = "idle" /\ gh.calls < MaxSwCalls
  /\ IF lfst._contents
       THEN /\ pc' = [pc EXCEPT ![t] = "acq_load"]
            /\ proc' = proc
       ELSE /\ pc' = pc
            /\ proc' = "abort"
  /\ loc' = [loc EXCEPT ![t].t = gh.nextv + 1, ![t].ret = "none"]
  /\ gh' = [gh EXCEPT !.calls = @ + 1, !.nextv = @ + 1]
  /\ UNCHANGED <<st, lst, lfst, run>>

\* the other threads call try_pop only
sw_call_try_pop(t) ==
  /\ t # 1
  /\ proc = "run" /\ pc[t] = "idle" /\ gh.calls < MaxSwCalls
  /\ IF lfst._contents
       THEN /\ pc' = [pc EXCEPT ![t] = "pop_load"]
            /\ proc' = proc
       ELSE /\ pc' = pc
            /\ proc' = "abort"
  /\ loc' = [loc EXCEPT ![t].dest0 = loc[t].dest, ![t].ret = "none"]
  /\ gh' = [gh EXCEPT !.calls = @ + 1]
  /\ UNCHANGED <<st, lst, lfst, run>>

NextSW ==
  \/ \E n \in LfSizes : lf_resize(n)
  \/ \E t \in Threads :
       \/ sw_call_push(t) \/ sw_call_try_pop(t)
       \/ lf_acq_load(t) \/ lf_acq_cas(t)
       \/ lf_push_load(t) \/ lf_push_store(t) \/ lf_push_cas(t)
       \/ lf_pop_load(t) \/ lf_pop_read(t) \/ lf_pop_cas(t)

SpecSW == Init /\ [][NextSW]_vars

\* C11: single writer, many poppers.  With thread 1 the only pusher, no
\* pushed value is returned by two try_pops, every value a try_pop returns
\* was pushed, and once every call has returned and the stack is drained each
\* pushed value has been returned exactly once.
C11_SingleWriterExactlyOnce ==
  /\ \A v \in DOMAIN gh.got : gh.got[v] <= 1 /\ (gh.got[v] = 1 => v <= gh.nextv)
  /\ (Quiescent /\ gh.nextv <= lfst.size - 1) =>
       \A v \in 1..gh.nextv : gh.got[v] + Count(v, Drain.vals) = 1

C13_CapacityBounds ==
  (proc # "new") =>
    /\ read_index(lfst.index) <= lfst.size - 1
    /\ \A t \in Threads :
         /\ pc[t] = "push_store" => push_slot(loc[t].index_copy) < lfst.size - 1
         /\ pc[t] = "pop_read" => pop_slot(loc[t].index_copy) \in 0..(lfst.size - 2)
    /\ (proc = "abort" => gh.nextv > lfst.size - 1)

\* the stack is full (count = size - 1 = 2) and a try_pop is about to read
\* the highest usable slot
C13_Witness ==
  /\ proc = "run" /\ lfst.size = 3 /\ read_index(lfst.index) = 2
  /\ \E t \in Threads : pc[t] = "pop_read" /\ pop_slot(loc[t].index_copy) = 1

\* threads that returned from acquire_write_rights and have not yet succeeded
\* in the publishing compare-exchange of push
InFlight == {t \in Threads : pc[t] \in {"push_load", "push_store", "push_cas"}}

\* threads inside a call of push
InPush == {t \in Threads : pc[t] \in {"acq_load", "acq_cas", "push_load", "push_store", "push_cas"}}

\* C14: writer-flag window.  If the low bit of ctrl is 1 then some push has
\* succeeded in its flag-acquisition compare-exchange and not yet in its
\* publishing one; so the flag is 0 whenever no push call is in progress.
C14_FlagWindow ==
  /\ lfst.index % 2 = 1 => InFlight # {}
  /\ InPush = {} => lfst.index % 2 = 0

\* the flag is set, one push is in its window and try_pops have both
\* succeeded before it and are running beside it
C14_Witness ==
  /\ lfst.index % 2 = 1 /\ Cardinality(InFlight) = 1
  /\ gh.pushret >= 1
  /\ \E t \in Threads : pc[t] = "pop_cas"

\* C15: flag held for the whole push.  While any push is in flight (returned
\* from acquire_write_rights, publishing compare-exchange not yet succeeded)
\* the low bit of ctrl is 1.
C15_FlagHeldWhileInFlight == InFlight # {} => lfst.index % 2 = 1

\* threads inside wrapped.push or wrapped.try_pop of the guarded stack
InWrapped ==
  {t \in Threads : pc[t] \in {"l_push_chk", "l_push_inc", "l_push_store",
                              "l_pop_chk", "l_pop_dec", "l_pop_read"}}

\* C16: mutual exclusion of the guarded stack.  At most one thread at a time
\* executes the wrapped push or try_pop, and it holds the mutex; the mutex is
\* released on every return path, the early return of try_pop on an empty
\* stack included, so it is free whenever no call is inside the wrapped stack.
C16_MutualExclusion ==
  /\ Cardinality(InWrapped) <= 1
  /\ \A t \in InWrapped : lst.mx = t
  /\ InWrapped = {} => lst.mx = NoThread

\* a try_pop has returned false through the early return and another thread
\* is inside the wrapped stack after it
C16_Witness ==
  \E t, u \in Threads :
    /\ t # u /\ pc[t] = "idle" /\ loc[t].ret = "false"
    /\ u \in InWrapped /\ lst.mx = u

\* ------------------------------------- every thread is scheduled fairly
SpecLFFair == SpecLF /\ \A t \in Threads : WF_vars(lf_step(t))

\* C17: termination on finite workloads.  With finitely many calls, every
\* thread scheduled fairly and the pushes within capacity, every retry loop
\* ends and every call returns: from some point on no thread is inside a call
\* (a failed capacity assertion, possible only with more than size - 1
\* pushes, ends the run instead).
C17_EveryCallReturns ==
  <>[](\/ \A t \in Threads : pc[t] = "idle"
       \/ (proc = "abort" /\ gh.nextv > lfst.size - 1))

\* every call has returned, the pushes were within capacity, and one try_pop
\* returned false after having retried (it had overwritten its output)
C17_Witness ==
  /\ Quiescent /\ proc = "run" /\ gh.calls = MaxCalls /\ gh.nextv <= lfst.size - 1
  /\ \E t \in Threads : loc[t].ret = "false" /\ loc[t].dest # loc[t].dest0

\* ------------------------------- one pushing thread and one popping thread
SpscThreads == {1, 2}

NextSPSC ==
  \/ \E n \in LfSizes : lf_resize(n)
  \/ \E t \in SpscThreads :
       \/ sw_call_push(t) \/ sw_call_try_pop(t)
       \/ lf_acq_load(t) \/ lf_acq_cas(t)
       \/ lf_push_load(t) \/ lf_push_store(t) \/ lf_push_cas(t)
       \/ lf_pop_load(t) \/ lf_pop_read(t) \/ lf_pop_cas(t)

SpecSPSC == Init /\ [][NextSPSC]_vars

\* values whose push has published and that no try_pop has returned; the one
\* pusher publishes the values 1, 2, ... in this order
Published == {v \in 1..gh.pushret : gh.got[v] = 0}

\* C18: one pusher and one popper.  Under every interleaving each successful
\* try_pop returns the most recently published value not yet popped, no value
\* is returned twice or lost (once every call has returned, what is left in
\* the stack is exactly what was pushed and not popped), and the publishing
\* compare-exchange of push succeeds on its first attempt.
C18_SpscLifo ==
  /\ [](\A v \in DOMAIN gh.got : gh.got[v] <= 1)
  /\ []((Quiescent /\ gh.nextv <= lfst.size - 1) =>
          \A v \in 1..gh.nextv : gh.got[v] + Count(v, Drain.vals) = 1)
  /\ [][\A t \in SpscThreads :
          /\ (pc[t] = "pop_cas" /\ pc'[t] = "idle") =>
               /\ Published # {}
               /\ loc'[t].dest \in Published
               /\ \A v \in Published : v <= loc'[t].dest
          /\ (pc[t] = "push_cas" /\ pc'[t] # "push_cas") => pc'[t] = "idle"]_vars

\* two pushes have published, one try_pop has succeeded and the popper is at
\* the compare-exchange of its next call
C18_Witness ==
  /\ gh.pushret = 2 /\ gh.popok = 1
  /\ \E t \in SpscThreads : pc[t] = "pop_cas"

====
